---- MODULE Spec2Model ----
(***************************************************************************)
(* grok-mcp: the JSON-RPC dispatcher (mcp_server.py: rpc_entry, handle_rpc),*)
(* the execution bridge (mcp_server.py: run_grok_search) and the response   *)
(* normalizer (scripts/grok_search.py: extract_message_text,                *)
(* extract_sources, normalize_source_entry).                                *)
(*                                                                          *)
(* JSON values are tagged records.  A Python str is a sequence of text      *)
(* units: punctuation and white space are single characters, a run of       *)
(* letters that the code never splits ("query", "grok_search") is one unit. *)
(***************************************************************************)
EXTENDS Integers, Sequences, FiniteSets, TLC

(* ------------------------------------------------------------------ *)
(* JSON values                                                          *)
(* ------------------------------------------------------------------ *)
JNull == [t |-> "null"]

JBool(b) == [t |-> "bool", b |-> b]

JNum(n) == [t |-> "num", n |-> n]

JStr(s) == [t |-> "str", s |-> s]

JArr(a) == [t |-> "arr", a |-> a]

\* a dict keeps insertion order: a sequence of members with distinct keys
JObj(m) == [t |-> "obj", m |-> m]

Mem(k, v) == [k |-> <<k>>, v |-> v]

\* a one-unit Python str
S(w) == JStr(<<w>>)

IsStr(v) == v.t = "str"

IsDict(v) == v.t = "obj"

IsList(v) == v.t = "arr"

\* Python truthiness: None, False, 0, "", [] and {} are falsy
Truthy(v) ==
  CASE v.t = "null" -> FALSE
    [] v.t = "bool" -> v.b
    [] v.t = "num"  -> v.n # 0
    [] v.t = "str"  -> v.s # <<>>
    [] v.t = "arr"  -> v.a # <<>>
    [] v.t = "obj"  -> v.m # <<>>

HasKey(d, k) == \E i \in 1..Len(d.m) : d.m[i].k = <<k>>

\* dict.get(k, default)
GetOr(d, k, default) ==
  IF HasKey(d, k)
  THEN d.m[CHOOSE i \in 1..Len(d.m) : d.m[i].k = <<k>>].v
  ELSE default

\* dict.get(k): None when the key is absent
Get(d, k) == GetOr(d, k, JNull)

\* x or y
PyOr(x, y) == IF Truthy(x) THEN x ELSE y

\* type(v).__name__
TypeName(v) ==
  CASE v.t = "null" -> "NoneType"
    [] v.t = "bool" -> "bool"
    [] v.t = "num"  -> "int"
    [] v.t = "str"  -> "str"
    [] v.t = "arr"  -> "list"
    [] v.t = "obj"  -> "dict"

(* ------------------------------------------------------------------ *)
(* Text                                                                 *)
(* ------------------------------------------------------------------ *)
QUOTE == "\""

BSLASH == "\\"

NL == "\n"

WhiteSpace == {" ", NL}

RECURSIVE LStrip(_)
LStrip(s) ==
  IF s # <<>> /\ Head(s) \in WhiteSpace THEN LStrip(Tail(s)) ELSE s

RECURSIVE RStrip(_)
RStrip(s) ==
  IF s # <<>> /\ s[Len(s)] \in WhiteSpace
  THEN RStrip(SubSeq(s, 1, Len(s) - 1))
  ELSE s

\* str.strip()
Strip(s) == RStrip(LStrip(s))

\* sep.join(parts)
RECURSIVE Join(_, _)
Join(sep, parts) ==
  IF parts = <<>> THEN <<>>
  ELSE IF Len(parts) = 1 THEN parts[1]
  ELSE parts[1] \o sep \o Join(sep, Tail(parts))

RECURSIVE Spaces(_)
Spaces(n) == IF n <= 0 THEN <<>> ELSE <<" ">> \o Spaces(n - 1)

(* ------------------------------------------------------------------ *)
(* json.dumps                                                           *)
(* ------------------------------------------------------------------ *)
\* the escapes of a str inside a JSON string literal
RECURSIVE Escape(_)
Escape(s) ==
  IF s = <<>> THEN <<>>
  ELSE LET c == Head(s) IN
       (CASE c = QUOTE  -> <<BSLASH, QUOTE>>
          [] c = BSLASH -> <<BSLASH, BSLASH>>
          [] c = NL     -> <<BSLASH, "n">>
          [] OTHER      -> <<c>>) \o Escape(Tail(s))

DumpsStr(s) == <<QUOTE>> \o Escape(s) \o <<QUOTE>>

\* json.dumps(v, ensure_ascii=False, indent=indent); indent < 0 stands for
\* indent=None (the compact form with ", " and ": ")
RECURSIVE DumpsAt(_, _, _)
DumpsAt(v, indent, level) ==
  LET brk(l) == IF indent < 0 THEN <<>> ELSE <<NL>> \o Spaces(indent * l)
      sep    == IF indent < 0 THEN <<",", " ">> ELSE <<",">> \o brk(level + 1)
  IN CASE v.t = "null" -> <<"null">>
       [] v.t = "bool" -> IF v.b THEN <<"true">> ELSE <<"false">>
       [] v.t = "num"  -> <<ToString(v.n)>>
       [] v.t = "str"  -> DumpsStr(v.s)
       [] v.t = "arr"  ->
            IF v.a = <<>> THEN <<"[", "]">>
            ELSE <<"[">> \o brk(level + 1)
                 \o Join(sep, [i \in 1..Len(v.a) |-> DumpsAt(v.a[i], indent, level + 1)])
                 \o brk(level) \o <<"]">>
       [] v.t = "obj"  ->
            IF v.m = <<>> THEN <<"{", "}">>
            ELSE <<"{">> \o brk(level + 1)
                 \o Join(sep, [i \in 1..Len(v.m) |->
                        DumpsStr(v.m[i].k) \o <<":", " ">>
                        \o DumpsAt(v.m[i].v, indent, level + 1)])
                 \o brk(level) \o <<"}">>

Dumps(v) == DumpsAt(v, -1, 0)

DumpsIndent2(v) == DumpsAt(v, 2, 0)

(* ------------------------------------------------------------------ *)
(* json.loads                                                           *)
(* ------------------------------------------------------------------ *)
\* the number literals of the model's texts
NumLit == [w \in {"0", "1", "5", "7"} |->
             CASE w = "0" -> 0 [] w = "1" -> 1 [] w = "5" -> 5 [] w = "7" -> 7]

Fail == [ok |-> FALSE]

Parsed(v, i) == [ok |-> TRUE, v |-> v, i |-> i]

RECURSIVE SkipWs(_, _)
SkipWs(s, i) ==
  IF i <= Len(s) /\ s[i] \in WhiteSpace THEN SkipWs(s, i + 1) ELSE i

\* the body of a string literal from position i (after the opening quote),
\* acc the characters decoded so far
RECURSIVE ParseChars(_, _, _)
ParseChars(s, i, acc) ==
  IF i > Len(s) THEN Fail
  ELSE IF s[i] = QUOTE THEN Parsed(acc, i + 1)
  ELSE IF s[i] = NL THEN Fail
  ELSE IF s[i] = BSLASH THEN
         IF i + 1 > Len(s) THEN Fail
         ELSE IF s[i + 1] = QUOTE  THEN ParseChars(s, i + 2, Append(acc, QUOTE))
         ELSE IF s[i + 1] = BSLASH THEN ParseChars(s, i + 2, Append(acc, BSLASH))
         ELSE IF s[i + 1] = "n"    THEN ParseChars(s, i + 2, Append(acc, NL))
         ELSE Fail
  ELSE ParseChars(s, i + 1, Append(acc, s[i]))

\* dict construction: a repeated key keeps its place and takes the last value
PutMember(m, k, v) ==
  IF \E j \in 1..Len(m) : m[j].k = k
  THEN [j \in 1..Len(m) |-> IF m[j].k = k THEN [k |-> k, v |-> v] ELSE m[j]]
  ELSE Append(m, [k |-> k, v |-> v])

RECURSIVE ParseValue(_, _)
RECURSIVE ParseElems(_, _, _)
RECURSIVE ElemsValue(_, _, _)
RECURSIVE ElemsSep(_, _, _)
RECURSIVE ParseMembers(_, _, _)
RECURSIVE MemberKey(_, _, _)
RECURSIVE MemberColon(_, _, _, _)
RECURSIVE MemberValue(_, _, _, _)
RECURSIVE MemberSep(_, _, _)

\* a string literal whose body parsed as r
StringValue(r) == IF r.ok THEN Parsed(JStr(r.v), r.i) ELSE Fail

\* one value starting at position i (white space already skipped)
ParseValue(s, i) ==
  IF i > Len(s) THEN Fail
  ELSE CASE s[i] = "null"  -> Parsed(JNull, i + 1)
         [] s[i] = "true"  -> Parsed(JBool(TRUE), i + 1)
         [] s[i] = "false" -> Parsed(JBool(FALSE), i + 1)
         [] s[i] \in DOMAIN NumLit -> Parsed(JNum(NumLit[s[i]]), i + 1)
         [] s[i] = QUOTE -> StringValue(ParseChars(s, i + 1, <<>>))
         [] s[i] = "[" -> ParseElems(s, SkipWs(s, i + 1), <<>>)
         [] s[i] = "{" -> ParseMembers(s, SkipWs(s, i + 1), <<>>)
         [] OTHER -> Fail

\* the elements of an array, the next one (or the closing bracket of an
\* empty array) at i
ParseElems(s, i, acc) ==
  IF acc = <<>> /\ i <= Len(s) /\ s[i] = "]" THEN Parsed(JArr(<<>>), i + 1)
  ELSE ElemsValue(s, acc, ParseValue(s, i))

\* after the element parsed as r
ElemsValue(s, acc, r) ==
  IF ~r.ok THEN Fail ELSE ElemsSep(s, Append(acc, r.v), SkipWs(s, r.i))

\* the comma or closing bracket at j
ElemsSep(s, acc, j) ==
  IF j > Len(s) THEN Fail
  ELSE IF s[j] = "]" THEN Parsed(JArr(acc), j + 1)
  ELSE IF s[j] = "," THEN ElemsValue(s, acc, ParseValue(s, SkipWs(s, j + 1)))
  ELSE Fail

\* the members of an object, the next key (or the closing brace of an empty
\* object) at i
ParseMembers(s, i, acc) ==
  IF acc = <<>> /\ i <= Len(s) /\ s[i] = "}" THEN Parsed(JObj(<<>>), i + 1)
  ELSE IF i > Len(s) \/ s[i] # QUOTE THEN Fail
  ELSE MemberKey(s, acc, ParseChars(s, i + 1, <<>>))

\* after the key parsed as k
MemberKey(s, acc, k) ==
  IF ~k.ok THEN Fail ELSE MemberColon(s, acc, k.v, SkipWs(s, k.i))

\* the colon at c
MemberColon(s, acc, key, c) ==
  IF c > Len(s) \/ s[c] # ":" THEN Fail
  ELSE MemberValue(s, acc, key, ParseValue(s, SkipWs(s, c + 1)))

\* after the value parsed as r
MemberValue(s, acc, key, r) ==
  IF ~r.ok THEN Fail ELSE MemberSep(s, PutMember(acc, key, r.v), SkipWs(s, r.i))

\* the comma or closing brace at j
MemberSep(s, m, j) ==
  IF j > Len(s) THEN Fail
  ELSE IF s[j] = "}" THEN Parsed(JObj(m), j + 1)
  ELSE IF s[j] = "," THEN ParseMembers(s, SkipWs(s, j + 1), m)
  ELSE Fail

\* the whole text is one value, white space around it allowed
WholeText(s, r) ==
  IF r.ok /\ SkipWs(s, r.i) > Len(s) THEN [ok |-> TRUE, v |-> r.v] ELSE Fail

\* json.loads(s): [ok |-> TRUE, v |-> value], or ok = FALSE for JSONDecodeError
Loads(s) == WholeText(s, ParseValue(s, SkipWs(s, 1)))

(* ------------------------------------------------------------------ *)
(* mcp_server.py: constants and response builders                       *)
(* ------------------------------------------------------------------ *)
SERVER_INFO ==
  JObj(<<Mem("name", S("grok-search-mcp")), Mem("version", S("0.1.0"))>>)

TOOL_NAME == S("grok_search")

TOOL_DEF ==
  JObj(<<Mem("name", TOOL_NAME),
         Mem("description", S("Search the web or X using Grok's real-time search capability.")),
         Mem("inputSchema", JObj(<<
            Mem("type", S("object")),
            Mem("properties", JObj(<<Mem("query", JObj(<<
               Mem("type", S("string")),
               Mem("description", S("Search query / research task."))>>))>>)),
            Mem("required", JArr(<<S("query")>>)),
            Mem("additionalProperties", JBool(FALSE))>>))>>)

DEFAULT_PROTOCOL_VERSION == S("2024-11-05")

\* a flask Response carrying a JSON body; handle_rpc never builds a tuple
Response(body) == [t |-> "Response", json |-> body]

\* a Python exception leaving the function
Raise(exc) == [t |-> "raise", exc |-> exc]

IsTuple(resp) == resp.t = "tuple"

IsRaise(resp) == resp.t = "raise"

jsonrpc_result(id, result) ==
  Response(JObj(<<Mem("jsonrpc", S("2.0")), Mem("id", id), Mem("result", result)>>))

\* data = JNull stands for data=None: the key is left out
jsonrpc_error(id, code, message, data) ==
  LET err == <<Mem("code", JNum(code)), Mem("message", JStr(message))>>
             \o (IF data # JNull THEN <<Mem("data", data)>> ELSE <<>>)
  IN Response(JObj(<<Mem("jsonrpc", S("2.0")), Mem("id", id), Mem("error", JObj(err))>>))

\* str(v) / repr(v) as an f-string renders it
RECURSIVE PyRepr(_)
PyRepr(v) ==
  CASE v.t = "null" -> <<"None">>
    [] v.t = "bool" -> IF v.b THEN <<"True">> ELSE <<"False">>
    [] v.t = "num"  -> <<ToString(v.n)>>
    [] v.t = "str"  -> <<"'">> \o v.s \o <<"'">>
    [] v.t = "arr"  ->
         <<"[">> \o Join(<<",", " ">>, [i \in 1..Len(v.a) |-> PyRepr(v.a[i])]) \o <<"]">>
    [] v.t = "obj"  ->
         <<"{">> \o Join(<<",", " ">>, [i \in 1..Len(v.m) |->
              PyRepr(JStr(v.m[i].k)) \o <<":", " ">> \o PyRepr(v.m[i].v)]) \o <<"}">>

PyStr(v) == IF v.t = "str" THEN v.s ELSE PyRepr(v)

(* ------------------------------------------------------------------ *)
(* mcp_server.py: run_grok_search                                       *)
(* ------------------------------------------------------------------ *)
GROK_SCRIPT_PATH == S("scripts/grok_search.py")

\* How subprocess.run can end: kind "timeout" (TimeoutExpired after 120 s),
\* "notfound" (FileNotFoundError), "oserror" (any other exception), or
\* "exit" with the captured stdout, stderr and return code.
ProcFalse(error, rest) ==
  JObj(<<Mem("ok", JBool(FALSE)), Mem("error", S(error))>> \o rest)

\* the return for a process that ran to its exit, stdout and stderr stripped,
\* r what json.loads made of stdout
ProcExited(stdout, stderr, returncode, r) ==
  IF stdout # <<>>
  THEN IF r.ok THEN r.v
       ELSE ProcFalse("non_json_output",
              <<Mem("raw_stdout", JStr(stdout)),
                Mem("raw_stderr", JStr(stderr)),
                Mem("returncode", JNum(returncode))>>)
  ELSE ProcFalse("empty_output",
         <<Mem("returncode", JNum(returncode)),
           Mem("raw_stderr", JStr(stderr))>>)

run_grok_search(query, end) ==
  CASE end.kind = "timeout" ->
         ProcFalse("timeout", <<Mem("detail", JStr(end.msg))>>)
    [] end.kind = "notfound" ->
         ProcFalse("script_not_found",
                   <<Mem("detail", JStr(end.msg)), Mem("path", GROK_SCRIPT_PATH)>>)
    [] end.kind = "oserror" ->
         ProcFalse("subprocess_error", <<Mem("detail", JStr(end.msg))>>)
    [] end.kind = "exit" ->
         ProcExited(Strip(end.stdout), Strip(end.stderr), end.returncode,
                    IF Strip(end.stdout) # <<>> THEN Loads(Strip(end.stdout)) ELSE Fail)

(* ------------------------------------------------------------------ *)
(* mcp_server.py: handle_rpc                                            *)
(* ------------------------------------------------------------------ *)
\* What a call of handle_rpc yields: resp is the Response returned or the
\* exception raised, calls the invocations of run_grok_search it made.
Returned(resp) == [resp |-> resp, calls |-> <<>>]

\* the MCP tool result built from the bridge's outcome
ToolResult(id, out) ==
  IF ~IsDict(out) THEN Raise("AttributeError")
  ELSE jsonrpc_result(id, JObj(<<
         Mem("content", JArr(<<JObj(<<Mem("type", S("text")),
                                      Mem("text", JStr(DumpsIndent2(out)))>>)>>)),
         Mem("isError", JBool(~Truthy(GetOr(out, "ok", JBool(TRUE)))))>>))

\* DecodeArguments without the json.loads step: a str is used as it arrived
DecodeArgumentsUndecoded(arguments) == [ok |-> TRUE, v |-> arguments]

\* the json.loads step for arguments that arrive as a str
DecodeArguments(arguments) ==
  IF IsStr(arguments) THEN Loads(arguments.s) ELSE [ok |-> TRUE, v |-> arguments]

\* lines 151-165: the bridge is invoked with the trimmed query
CallBridge(id, q, end, out) ==
  [resp  |-> ToolResult(id, out),
   calls |-> <<[query |-> q, end |-> end, out |-> out]>>]

\* lines 147-151: the query check
CallQuery(id, query, end) ==
  IF ~IsStr(query) \/ Strip(query.s) = <<>>
  THEN Returned(jsonrpc_error(id, -32602, <<"Missing required argument: query">>, JNull))
  ELSE CallBridge(id, Strip(query.s), end, run_grok_search(Strip(query.s), end))

\* lines 136-145: arguments must be an object, name the registered tool
CallArguments(id, name, arguments, end) ==
  IF ~IsDict(arguments)
  THEN Returned(jsonrpc_error(id, -32602, <<"Invalid arguments: expected object.">>,
                  JObj(<<Mem("arguments_type", S(TypeName(arguments)))>>)))
  ELSE IF name # TOOL_NAME
  THEN Returned(jsonrpc_error(id, -32602, <<"Unknown tool: ">> \o PyStr(name), JNull))
  ELSE CallQuery(id, Get(arguments, "query"), end)

\* lines 122-134: dec is the outcome of decoding the arguments raw
CallDecoded(id, name, raw, dec, end) ==
  IF ~dec.ok
  THEN Returned(jsonrpc_error(id, -32602,
          <<"Invalid arguments: string payload is not valid JSON.">>,
          JObj(<<Mem("arguments", raw)>>)))
  ELSE CallArguments(id, name, IF dec.v = JNull THEN JObj(<<>>) ELSE dec.v, end)

ToolsCall(id, params, end) ==
  IF ~IsDict(params) THEN Returned(Raise("AttributeError"))
  ELSE CallDecoded(id, Get(params, "name"), Get(params, "arguments"),
                   DecodeArguments(Get(params, "arguments")), end)

Initialize(id, params) ==
  IF ~IsDict(params) THEN Raise("AttributeError")
  ELSE LET protocol_version ==
             PyOr(Get(params, "protocolVersion"), DEFAULT_PROTOCOL_VERSION)
       IN jsonrpc_result(id, JObj(<<
            Mem("protocolVersion", protocol_version),
            Mem("serverInfo", SERVER_INFO),
            Mem("capabilities", JObj(<<Mem("tools", JObj(<<>>))>>))>>))

\* handle_rpc(msg) for a dict msg; end is how the helper process ends if the
\* call reaches run_grok_search
handle_rpc(msg, end) ==
  LET id     == Get(msg, "id")
      method == GetOr(msg, "method", JStr(<<>>))
      params == PyOr(Get(msg, "params"), JObj(<<>>))
  IN IF Get(msg, "jsonrpc") # S("2.0") \/ ~IsStr(method) \/ ~Truthy(method)
     THEN Returned(jsonrpc_error(id, -32600, <<"Invalid Request">>, msg))
     ELSE IF method = S("initialize") THEN Returned(Initialize(id, params))
     ELSE IF method = S("tools/list")
     THEN Returned(jsonrpc_result(id, JObj(<<Mem("tools", JArr(<<TOOL_DEF>>))>>)))
     ELSE IF method = S("tools/call") THEN ToolsCall(id, params, end)
     ELSE IF method = S("notifications/initialized")
     THEN Returned(jsonrpc_result(id, JObj(<<>>)))
     ELSE Returned(jsonrpc_error(id, -32601,
             <<"Method not found: ">> \o PyStr(method), JNull))

(* ------------------------------------------------------------------ *)
(* mcp_server.py: rpc_entry                                             *)
(* ------------------------------------------------------------------ *)
\* the batch loop from entry i on; ends[i] is how the helper process ends
\* if entry i reaches run_grok_search.  An exception leaves the loop and
\* the handler.  from[k] is the entry whose response is responses[k].
RECURSIVE BatchLoop(_, _, _, _, _, _)
RECURSIVE BatchEntry(_, _, _, _, _, _, _)

BatchLoop(payload, ends, i, responses, from, calls) ==
  IF i > Len(payload.a)
  THEN [resp |-> Response(JArr(responses)), from |-> from, calls |-> calls]
  ELSE IF ~IsDict(payload.a[i])
  THEN BatchLoop(payload, ends, i + 1, responses, from, calls)
  ELSE BatchEntry(payload, ends, i, responses, from, calls,
                  handle_rpc(payload.a[i], ends[i]))

\* entry i after handle_rpc yielded r
BatchEntry(payload, ends, i, responses, from, calls, r) ==
  IF IsRaise(r.resp)
  THEN [resp |-> r.resp, from |-> <<>>, calls |-> calls \o r.calls]
  ELSE IF IsTuple(r.resp)
  THEN BatchLoop(payload, ends, i + 1, responses, from, calls \o r.calls)
  ELSE BatchLoop(payload, ends, i + 1, Append(responses, r.resp.json),
                 Append(from, i), calls \o r.calls)

\* a single message after handle_rpc yielded r
SingleEntry(r) ==
  [resp  |-> r.resp,
   from  |-> IF r.resp.t = "Response" THEN <<1>> ELSE <<>>,
   calls |-> r.calls]

\* rpc_entry for the JSON document payload (JNull when the body is not JSON)
rpc_entry(payload, ends) ==
  IF IsList(payload) THEN BatchLoop(payload, ends, 1, <<>>, <<>>, <<>>)
  ELSE IF ~IsDict(payload)
  THEN [resp  |-> jsonrpc_error(JNull, -32600, <<"Invalid Request">>, payload),
        from  |-> <<>>, calls |-> <<>>]
  ELSE SingleEntry(handle_rpc(payload, ends[1]))

(* ------------------------------------------------------------------ *)
(* Inputs                                                               *)
(* ------------------------------------------------------------------ *)
\* longest batch delivered
MaxBatch == 2

\* a key that is absent, or present with one of vals
Opt(k, vals) == {<<>>} \cup {<<Mem(k, v)>> : v \in vals}

QueryX == JObj(<<Mem("query", S("x"))>>)

QueryPadded == JObj(<<Mem("query", JStr(<<" ", "x", " ">>))>>)

ArgumentValues ==
  { JNull, JObj(<<>>), QueryX, QueryPadded,
    JObj(<<Mem("query", JStr(<<" ", NL>>))>>),
    JObj(<<Mem("query", JStr(<<>>))>>),
    JObj(<<Mem("query", JNum(5))>>),
    JObj(<<Mem("q", S("x"))>>),
    JArr(<<S("x")>>), JNum(7), JBool(TRUE),
    \* arguments as a JSON-encoded string
    JStr(Dumps(QueryX)), JStr(Dumps(QueryPadded)),
    JStr(<<" ">> \o Dumps(QueryX) \o <<NL>>),
    JStr(Dumps(JObj(<<>>))), JStr(Dumps(JObj(<<Mem("query", JNum(5))>>))),
    JStr(<<"null">>), JStr(<<"[", "1", "]">>), JStr(<<"7">>),
    \* a JSON string literal whose content is itself JSON text
    JStr(Dumps(JStr(Dumps(QueryX)))),
    JStr(Dumps(S("x"))),
    \* not JSON
    JStr(<<>>), S("x"), JStr(<<"{", QUOTE, "query", QUOTE, ":">>),
    JStr(Dumps(QueryX) \o <<"}">>) }

NameValues == { TOOL_NAME, S("other"), JNum(5), JNull, JArr(<<S("grok_search")>>) }

ToolsCallParams ==
  { JObj(n \o a) : n \in Opt("name", NameValues), a \in Opt("arguments", ArgumentValues) }

InitializeParams ==
  { JObj(<<Mem("protocolVersion", v)>>) :
      v \in { S("2025-03-26"), JStr(<<>>), JNull, JNum(0), JNum(5), JBool(FALSE) } }

\* params that is not an object
OtherParams ==
  { JObj(<<>>), JArr(<<>>), JArr(<<JNum(1)>>), S("abc"), JStr(<<>>), JNum(7), JNum(0), JNull }

ParamsValues == ToolsCallParams \cup InitializeParams \cup OtherParams

MethodValues ==
  { S("initialize"), S("tools/list"), S("tools/call"), S("notifications/initialized"),
    S("foo"), JStr(<<>>), JNum(5), JNull }

IdValues == { JNum(1), S("a"), JNull }

JsonrpcValues == { S("2.0"), S("1.0"), JNum(2) }

\* every single message the transport delivers
Messages ==
  { JObj(j \o i \o m \o p) :
      j \in Opt("jsonrpc", JsonrpcValues), i \in Opt("id", IdValues),
      m \in Opt("method", MethodValues), p \in Opt("params", ParamsValues) }

Call(id, method, params) ==
  JObj(<<Mem("jsonrpc", S("2.0"))>> \o id \o <<Mem("method", S(method))>> \o params)

\* the entries batches are made of
BatchEntries ==
  { Call(<<Mem("id", JNum(1))>>, "tools/list", <<>>),
    Call(<<Mem("id", JNum(5))>>, "initialize", <<>>),
    Call(<<>>, "notifications/initialized", <<>>),
    Call(<<>>, "tools/list", <<>>),
    Call(<<Mem("id", JNum(7))>>, "foo", <<>>),
    Call(<<Mem("id", S("a"))>>, "tools/call",
         <<Mem("params", JObj(<<Mem("name", TOOL_NAME), Mem("arguments", QueryX)>>))>>),
    Call(<<Mem("id", S("b"))>>, "tools/call", <<Mem("params", JArr(<<JNum(1)>>))>>),
    JObj(<<Mem("id", JNum(0))>>),
    JNum(1), S("x") }

RECURSIVE SeqsUpTo(_, _)
SeqsUpTo(set, n) ==
  IF n = 0 THEN {<<>>}
  ELSE LET shorter == SeqsUpTo(set, n - 1)
       IN shorter \cup {Append(q, e) : q \in {r \in shorter : Len(r) = n - 1}, e \in set}

Batches == { JArr(a) : a \in SeqsUpTo(BatchEntries, MaxBatch) }

\* a body that is valid JSON but neither object nor array, or not JSON at all
ScalarPayloads == { JNull, JNum(1), S("x"), JBool(TRUE) }

Payloads == Messages \cup Batches \cup ScalarPayloads

\* what the helper prints on success and on a failure it reports itself
\* (scripts/grok_search.py main)
HelperSuccess ==
  JObj(<<Mem("ok", JBool(TRUE)), Mem("content", S("Paris")),
         Mem("sources", JArr(<<>>)), Mem("raw", JObj(<<Mem("choices", JArr(<<>>))>>))>>)

HelperFailure ==
  JObj(<<Mem("ok", JBool(FALSE)), Mem("error", S("http_error")),
         Mem("status_code", JNum(5)), Mem("detail", S("HTTP 500"))>>)

\* what a process at GROK_SCRIPT_PATH may leave on stdout
Stdouts ==
  { <<>>, <<" ", NL>>, <<"Traceback">>, <<"{", QUOTE, "ok", QUOTE>>,
    Dumps(HelperSuccess) \o <<NL>>, Dumps(HelperFailure) \o <<NL>>,
    Dumps(JObj(<<Mem("content", S("x"))>>)) \o <<NL>>,
    Dumps(JObj(<<Mem("ok", JBool(FALSE)), Mem("content", S("x")),
                 Mem("sources", JArr(<<>>))>>)),
    Dumps(JObj(<<Mem("ok", JNum(1))>>)), Dumps(JObj(<<Mem("ok", JNull)>>)),
    Dumps(JArr(<<JNum(1)>>)), <<"null">>, Dumps(S("ok")) }

ProcEnds ==
  { [kind |-> "timeout",  msg |-> <<"timed out after 120 seconds">>],
    [kind |-> "notfound", msg |-> <<"No such file or directory">>],
    [kind |-> "oserror",  msg |-> <<"embedded null byte">>] }
  \cup { [kind |-> "exit", stdout |-> o, stderr |-> <<>>, returncode |-> 0] : o \in Stdouts }
  \cup { [kind |-> "exit", stdout |-> <<>>, stderr |-> <<"Traceback", NL>>, returncode |-> 1] }

\* no helper process is started for the entry
NoProc == [kind |-> "none"]

AnEnd == [kind |-> "timeout", msg |-> <<"timed out after 120 seconds">>]

\* the ways the helper can end for one entry: only a call that reaches
\* run_grok_search starts a process
EndsFor(msg) ==
  IF IsDict(msg) /\ handle_rpc(msg, AnEnd).calls # <<>> THEN ProcEnds ELSE {NoProc}

RECURSIVE EndChoices(_)
EndChoices(msgs) ==
  IF msgs = <<>> THEN {<<>>}
  ELSE {<<e>> \o rest : e \in EndsFor(Head(msgs)), rest \in EndChoices(Tail(msgs))}

EntriesOf(payload) == IF IsList(payload) THEN payload.a ELSE <<payload>>

(* ------------------------------------------------------------------ *)
(* scripts/grok_search.py: the response normalizer                      *)
(* ------------------------------------------------------------------ *)
\* what an extractor yields: the value returned, or the exception raised
Ret(v) == [t |-> "return", v |-> v]

\* choices[0].get("message", {}) once choices is a non-empty list; the
\* first choice has no .get unless it is a dict
FirstMessage(choices) ==
  IF IsDict(choices.a[1]) THEN Ret(GetOr(choices.a[1], "message", JObj(<<>>)))
  ELSE Raise("AttributeError")

\* the text of the parts shaped {type: "text", text: <str>}, in order
RECURSIVE TextParts(_)
TextParts(parts) ==
  IF parts = <<>> THEN <<>>
  ELSE LET part == Head(parts)
           keep == IsDict(part) /\ Get(part, "type") = S("text") /\ IsStr(Get(part, "text"))
       IN (IF keep THEN <<Get(part, "text").s>> ELSE <<>>) \o TextParts(Tail(parts))

\* [p.strip() for p in parts if p]
RECURSIVE StripNonEmpty(_)
StripNonEmpty(parts) ==
  IF parts = <<>> THEN <<>>
  ELSE (IF Head(parts) # <<>> THEN <<Strip(Head(parts))>> ELSE <<>>)
       \o StripNonEmpty(Tail(parts))

extract_message_text(payload_json) ==
  LET choices  == Get(payload_json, "choices")
      fallback == Ret(Dumps(payload_json))
  IN IF IsList(choices) /\ Truthy(choices)
     THEN LET message == FirstMessage(choices)
          IN IF IsRaise(message) THEN message
             ELSE IF IsDict(message.v)
             THEN LET c == Get(message.v, "content")
                  IN IF IsStr(c) THEN Ret(Strip(c.s))
                     ELSE IF IsList(c)
                     THEN Ret(Join(<<NL>>, StripNonEmpty(TextParts(c.a))))
                     ELSE fallback
             ELSE fallback
     ELSE fallback

\* normalize_source_entry with each pair of keys read in the other order
\* (href before url, name before title, quote before snippet)
NormalizeSourceEntrySecondKeyFirst(entry) ==
  IF IsStr(entry) THEN JObj(<<Mem("url", entry)>>)
  ELSE IF IsDict(entry)
  THEN LET url     == PyOr(Get(entry, "href"), Get(entry, "url"))
           title   == PyOr(Get(entry, "name"), Get(entry, "title"))
           snippet == PyOr(Get(entry, "quote"), Get(entry, "snippet"))
           normalized ==
             (IF Truthy(url) THEN <<Mem("url", url)>> ELSE <<>>)
             \o (IF Truthy(title) THEN <<Mem("title", title)>> ELSE <<>>)
             \o (IF Truthy(snippet) THEN <<Mem("snippet", snippet)>> ELSE <<>>)
       IN IF normalized # <<>> THEN JObj(normalized) ELSE JNull
  ELSE JNull

normalize_source_entry(entry) ==
  IF IsStr(entry) THEN JObj(<<Mem("url", entry)>>)
  ELSE IF IsDict(entry)
  THEN LET url     == PyOr(Get(entry, "url"), Get(entry, "href"))
           title   == PyOr(Get(entry, "title"), Get(entry, "name"))
           snippet == PyOr(Get(entry, "snippet"), Get(entry, "quote"))
           normalized ==
             (IF Truthy(url) THEN <<Mem("url", url)>> ELSE <<>>)
             \o (IF Truthy(title) THEN <<Mem("title", title)>> ELSE <<>>)
             \o (IF Truthy(snippet) THEN <<Mem("snippet", snippet)>> ELSE <<>>)
       IN IF normalized # <<>> THEN JObj(normalized) ELSE JNull
  ELSE JNull

MessageKeys == <<"citations", "sources", "references">>

TopLevelKeys == <<"sources", "citations", "references">>

\* message.get(key) or message.get("metadata", {}).get(key)
MessageValue(message, key) ==
  LET direct == Get(message, key)
  IN IF Truthy(direct) THEN Ret(direct)
     ELSE LET metadata == GetOr(message, "metadata", JObj(<<>>))
          IN IF IsDict(metadata) THEN Ret(Get(metadata, key))
             ELSE Raise("AttributeError")

\* the loop over the message keys from key i on: the first truthy value,
\* JNull (nothing found) or the exception that leaves the loop
RECURSIVE MessageSources(_, _)
MessageSources(message, i) ==
  IF i > Len(MessageKeys) THEN Ret(JNull)
  ELSE LET value == MessageValue(message, MessageKeys[i])
       IN IF IsRaise(value) THEN value
          ELSE IF Truthy(value.v) THEN value
          ELSE MessageSources(message, i + 1)

RECURSIVE TopLevelSources(_, _)
TopLevelSources(payload_json, i) ==
  IF i > Len(TopLevelKeys) THEN JNull
  ELSE LET value == Get(payload_json, TopLevelKeys[i])
       IN IF Truthy(value) THEN value ELSE TopLevelSources(payload_json, i + 1)

\* the entries that normalize to a non-empty dict, in order
RECURSIVE NormalizeAll(_)
NormalizeAll(items) ==
  IF items = <<>> THEN <<>>
  ELSE LET normalized_item == normalize_source_entry(Head(items))
       IN (IF Truthy(normalized_item) THEN <<normalized_item>> ELSE <<>>)
          \o NormalizeAll(Tail(items))

\* potential_sources after both loops; JNull stands for the empty tuple
PotentialSources(payload_json) ==
  LET choices == Get(payload_json, "choices")
      found ==
        IF IsList(choices) /\ Truthy(choices)
        THEN LET message == FirstMessage(choices)
             IN IF IsRaise(message) THEN message
                ELSE IF IsDict(message.v) THEN MessageSources(message.v, 1)
                ELSE Ret(JNull)
        ELSE Ret(JNull)
  IN IF IsRaise(found) THEN found
     ELSE IF Truthy(found.v) THEN found
     ELSE Ret(TopLevelSources(payload_json, 1))

extract_sources(payload_json) ==
  LET potential_sources == PotentialSources(payload_json)
  IN IF IsRaise(potential_sources) THEN potential_sources
     ELSE IF IsList(potential_sources.v)
     THEN Ret(JArr(NormalizeAll(potential_sources.v.a)))
     ELSE Ret(JArr(<<>>))

\* str(exc) of the AttributeError a missing .get raises
ExcDetail == S("object has no attribute 'get'")

\* main: the outcome printed as one line of JSON
main(text, srcs, payload_json) ==
  LET outcome ==
        IF IsRaise(text) \/ IsRaise(srcs)
        THEN JObj(<<Mem("ok", JBool(FALSE)), Mem("error", S("unexpected_exception")),
                    Mem("detail", ExcDetail)>>)
        ELSE JObj(<<Mem("ok", JBool(TRUE)), Mem("content", JStr(text.v)),
                    Mem("sources", srcs.v), Mem("raw", payload_json)>>)
  IN Dumps(outcome) \o <<NL>>

(* ------------------------------------------------------------------ *)
(* Provider payloads                                                    *)
(* ------------------------------------------------------------------ *)
\* longest content list
MaxParts == 2

TextPart(s) == JObj(<<Mem("type", S("text")), Mem("text", JStr(s))>>)

PartValues ==
  { TextPart(<<"a">>), TextPart(<<" ", "b", " ">>), TextPart(<<" ", NL>>), TextPart(<<>>),
    JObj(<<Mem("type", S("image")), Mem("text", S("i"))>>),
    JObj(<<Mem("type", S("text")), Mem("text", JNum(5))>>),
    JObj(<<Mem("text", S("a"))>>), S("raw") }

ContentValues ==
  { JNull, JStr(<<>>), JStr(<<" ", "hi", " ">>), JStr(<<" ", NL>>), S("Paris"),
    JNum(5), JObj(<<Mem("text", S("a"))>>) }
  \cup { JArr(a) : a \in SeqsUpTo(PartValues, MaxParts) }

\* longest list of source entries
MaxSources == 3

\* the shapes a provider gives one citation
SourceEntryValues ==
  { S("http://x"), JStr(<<>>),
    JObj(<<Mem("href", S("http://y")), Mem("name", S("Y"))>>),
    JObj(<<Mem("url", S("http://u")), Mem("href", S("http://h")),
           Mem("title", JNull), Mem("name", S("N")), Mem("quote", JNum(7))>>),
    JObj(<<Mem("url", JStr(<<>>)), Mem("snippet", S("s")), Mem("quote", S("q"))>>),
    JObj(<<Mem("url", JStr(<<>>)), Mem("id", JNum(1))>>),
    JObj(<<>>), JNum(5) }

SourceLists == { JArr(a) : a \in SeqsUpTo(SourceEntryValues, MaxSources) }

\* replies that carry a list of citations, in the message or at top level
SourcePayloads ==
  { JObj(<<Mem("choices", JArr(<<JObj(<<Mem("message",
        JObj(<<Mem("content", S("Paris")), Mem("citations", l)>>))>>)>>))>>)
      : l \in SourceLists }
  \cup { JObj(<<Mem("id", S("r")), Mem("references", l)>>) : l \in SourceLists }

\* the citation keys a message carries besides content
MessageExtras ==
  { <<>>,
    <<Mem("citations", JArr(<<S("http://x")>>))>>,
    <<Mem("sources", JArr(<<>>)), Mem("references", JArr(<<S("http://r")>>))>>,
    <<Mem("citations", S("http://x"))>>,
    <<Mem("metadata", JObj(<<Mem("citations", JArr(<<S("http://m")>>))>>)),
      Mem("sources", JArr(<<S("http://s")>>))>>,
    <<Mem("metadata", JObj(<<>>))>>,
    <<Mem("metadata", JNull)>>,
    <<Mem("metadata", S("m"))>>,
    <<Mem("metadata", S("m")), Mem("citations", JArr(<<S("http://x")>>))>> }

MessageValues ==
  { JObj(c \o x) : c \in Opt("content", ContentValues), x \in MessageExtras }
  \cup { S("m"), JNull, JArr(<<>>) }

ChoicesValues ==
  { JArr(<<>>), S("choices"), JNull, JObj(<<>>),
    JArr(<<S("s")>>), JArr(<<JNull>>), JArr(<<JNum(1), JObj(<<>>)>>), JArr(<<JObj(<<>>)>>) }
  \cup { JArr(<<JObj(<<Mem("message", m)>>)>>) : m \in MessageValues }

TopLevelExtras ==
  { <<>>, <<Mem("sources", JArr(<<S("http://t")>>))>>,
    <<Mem("citations", JArr(<<JObj(<<>>)>>)), Mem("references", S("r"))>> }

ProviderPayloads ==
  { JObj(c \o x) : c \in Opt("choices", ChoicesValues), x \in TopLevelExtras }
  \cup SourcePayloads

(* ------------------------------------------------------------------ *)
(* The server and the helper process                                    *)
(* ------------------------------------------------------------------ *)
\* The server (mcp_server.py) takes one request at a time and keeps nothing
\* across requests:
\*   phase    "idle", "received" (a body was parsed), "replied"
\*   payload  the parsed body
\*   ends     per entry, how the helper process ended
\*   reply    what rpc_entry returned, or the exception that left it
\*   answers  for each response emitted, the entry it answers
\*   calls    the invocations of run_grok_search
\* The helper (scripts/grok_search.py) from the provider's 2xx JSON reply on:
\*   hpc      "off", "reply" (body parsed), "text", "sources", "failed", "done"
\*   pj       the provider payload
\*   content, sources   what the extractors returned or raised
\*   stdout   what main printed
VARIABLES phase, payload, ends, reply, answers, calls, hpc, pj, content, sources, stdout

server == <<phase, payload, ends, reply, answers, calls>>

helper == <<hpc, pj, content, sources, stdout>>

vars == <<server, helper>>

None == [t |-> "none"]

ServerIdle ==
  /\ phase = "idle"
  /\ payload = None
  /\ ends = <<>>
  /\ reply = None
  /\ answers = <<>>
  /\ calls = <<>>

HelperOff ==
  /\ hpc = "off"
  /\ pj = None
  /\ content = None
  /\ sources = None
  /\ stdout = None

Init == ServerIdle /\ HelperOff

\* the transport hands a parsed body to rpc_entry
Deliver ==
  /\ phase = "idle"
  /\ \E p \in Payloads : payload' = p
  /\ phase' = "received"
  /\ UNCHANGED <<ends, reply, answers, calls, helper>>

\* what rpc_entry yielded is what the request ends with
Replies(es, r) ==
  /\ ends' = es
  /\ reply' = r.resp
  /\ answers' = r.from
  /\ calls' = r.calls

\* rpc_entry runs to its return (or to the exception that leaves it)
RpcEntry ==
  /\ phase = "received"
  /\ \E es \in EndChoices(EntriesOf(payload)) : Replies(es, rpc_entry(payload, es))
  /\ phase' = "replied"
  /\ UNCHANGED <<payload, helper>>

\* the response is sent and everything built for the request is dropped
Discard ==
  /\ phase = "replied"
  /\ phase' = "idle"
  /\ payload' = None
  /\ ends' = <<>>
  /\ reply' = None
  /\ answers' = <<>>
  /\ calls' = <<>>
  /\ UNCHANGED helper

Next == Deliver \/ RpcEntry \/ Discard

Spec == Init /\ [][Next]_vars

\* The helper process, started with the provider's reply already parsed
\* (call_grok, after response.json()).
HelperInit ==
  /\ ServerIdle
  /\ hpc = "reply"
  /\ pj \in ProviderPayloads
  /\ content = None
  /\ sources = None
  /\ stdout = None

ExtractMessageText ==
  /\ hpc = "reply"
  /\ content' = extract_message_text(pj)
  /\ hpc' = IF IsRaise(content') THEN "failed" ELSE "text"
  /\ UNCHANGED <<pj, sources, stdout, server>>

ExtractSources ==
  /\ hpc = "text"
  /\ sources' = extract_sources(pj)
  /\ hpc' = IF IsRaise(sources') THEN "failed" ELSE "sources"
  /\ UNCHANGED <<pj, content, stdout, server>>

\* main prints the outcome, or the unexpected_exception it caught
Main ==
  /\ hpc \in {"sources", "failed"}
  /\ stdout' = main(content, IF hpc = "sources" THEN sources ELSE Raise("AttributeError"), pj)
  /\ hpc' = "done"
  /\ UNCHANGED <<pj, content, sources, server>>

HelperNext == ExtractMessageText \/ ExtractSources \/ Main

HelperSpec == HelperInit /\ [][HelperNext]_vars


(* ------------------------------------------------------------------ *)
(* Properties                                                           *)
(* ------------------------------------------------------------------ *)
Replied == phase = "replied"

Entries == EntriesOf(payload)

IsRpcResult(r) ==
  /\ r.t = "Response"
  /\ IsDict(r.json)
  /\ HasKey(r.json, "result")
  /\ ~HasKey(r.json, "error")

IsRpcError(r, code) ==
  /\ r.t = "Response"
  /\ IsDict(r.json)
  /\ HasKey(r.json, "error")
  /\ ~HasKey(r.json, "result")
  /\ Get(Get(r.json, "error"), "code") = JNum(code)

\* the entries of a batch that carry an id, in array order
RECURSIVE IdEntries(_, _)
IdEntries(a, i) ==
  IF i > Len(a) THEN <<>>
  ELSE (IF IsDict(a[i]) /\ HasKey(a[i], "id") THEN <<i>> ELSE <<>>) \o IdEntries(a, i + 1)

\* C1: a message without an id (a notification) gets no response, neither
\* as a single request nor as an entry of a batch's response array: every
\* response emitted answers an entry that carries an id.
C1_NotificationsGetNoResponse ==
  Replied => \A k \in 1..Len(answers) : HasKey(Entries[answers[k]], "id")

\* C2: the response array of a batch holds exactly one response per entry
\* that carries an id, in request order, each with the id of its entry.
C2_BatchAnswersIdEntriesInOrder ==
  Replied /\ IsList(payload) =>
    /\ reply.t = "Response"
    /\ IsList(reply.json)
    /\ answers = IdEntries(payload.a, 1)
    /\ Len(reply.json.a) = Len(answers)
    /\ \A k \in 1..Len(answers) :
         Get(reply.json.a[k], "id") = Get(payload.a[answers[k]], "id")

\* C3: whatever the JSON types of the fields of an object message,
\* handle_rpc returns a JSON-RPC response and never raises, so rpc_entry
\* returns a response for a single message and an array for a batch.
C3_HandleRpcNeverRaises ==
  Replied => /\ reply.t = "Response"
             /\ IsList(payload) => IsList(reply.json)
             /\ IsDict(payload) => IsDict(reply.json)

IsToolsCall(msg) ==
  IsDict(msg) /\ Get(msg, "jsonrpc") = S("2.0") /\ Get(msg, "method") = S("tools/call")

\* params.name and arguments.query as the caller sent them; JNull when absent
NameOf(msg) ==
  IF IsDict(Get(msg, "params")) THEN Get(Get(msg, "params"), "name") ELSE JNull

ArgumentsOf(msg) ==
  IF IsDict(Get(msg, "params")) THEN Get(Get(msg, "params"), "arguments") ELSE JNull

QueryOf(msg) ==
  LET raw == ArgumentsOf(msg)
      arguments == IF IsStr(raw)
                   THEN (IF Loads(raw.s).ok THEN Loads(raw.s).v ELSE JNull)
                   ELSE raw
  IN IF IsDict(arguments) THEN Get(arguments, "query") ELSE JNull

UsableQuery(q) == IsStr(q) /\ Strip(q.s) # <<>>

\* C4: a tools/call (jsonrpc "2.0") whose name is not grok_search or whose
\* query is absent, not a string or blank is answered with error -32602 and
\* never reaches run_grok_search; the bridge runs only for a valid call.
C4_InvalidToolsCallIs32602 ==
  Replied /\ IsToolsCall(payload) =>
    /\ (NameOf(payload) # TOOL_NAME \/ ~UsableQuery(QueryOf(payload)))
         => IsRpcError(reply, -32602) /\ calls = <<>>
    /\ calls # <<>> => NameOf(payload) = TOOL_NAME /\ UsableQuery(QueryOf(payload))

IsInitialize(msg) ==
  IsDict(msg) /\ Get(msg, "jsonrpc") = S("2.0") /\ Get(msg, "method") = S("initialize")

SuppliedProtocolVersion(msg) ==
  IsDict(Get(msg, "params")) /\ HasKey(Get(msg, "params"), "protocolVersion")

\* C5: initialize (jsonrpc "2.0") always answers with a result whose
\* protocolVersion is the caller's params.protocolVersion verbatim when the
\* key is supplied, whatever its value, and the default only when it is not.
C5_InitializeEchoesProtocolVersion ==
  Replied /\ IsInitialize(payload) =>
    /\ IsRpcResult(reply)
    /\ Get(Get(reply.json, "result"), "protocolVersion") =
         IF SuppliedProtocolVersion(payload)
         THEN Get(Get(payload, "params"), "protocolVersion")
         ELSE DEFAULT_PROTOCOL_VERSION

OkIsTrue(out) == IsDict(out) /\ HasKey(out, "ok") /\ Get(out, "ok") = JBool(TRUE)

\* C6: a tools/call that reaches the bridge is answered with a result, never
\* a JSON-RPC error, whatever the bridge returned, and isError is true
\* exactly when the outcome's ok is not true (an outcome without ok included).
C6_ToolFailuresAreResults ==
  Replied /\ IsDict(payload) /\ calls # <<>> =>
    /\ IsRpcResult(reply)
    /\ Get(Get(reply.json, "result"), "isError") = JBool(~OkIsTrue(calls[1].out))

BridgeErrorKinds ==
  { S("timeout"), S("script_not_found"), S("subprocess_error"),
    S("empty_output"), S("non_json_output") }

BridgeFailure(out, kind) ==
  IsDict(out) /\ Get(out, "ok") = JBool(FALSE) /\ Get(out, "error") = S(kind)

\* a SearchOutcome: an object with a boolean ok, and without content and
\* sources when ok is false
IsSearchOutcome(out) ==
  /\ IsDict(out)
  /\ Get(out, "ok") \in {JBool(TRUE), JBool(FALSE)}
  /\ Get(out, "ok") = JBool(FALSE) => ~HasKey(out, "content") /\ ~HasKey(out, "sources")

\* C7: run_grok_search returns a SearchOutcome however the helper process
\* ends, with the error kind that names the ending; stdout that is JSON but
\* no SearchOutcome is reported as a failure.
C7_BridgeAlwaysReturnsSearchOutcome ==
  \A k \in 1..Len(calls) :
    LET end == calls[k].end
        out == calls[k].out
        text == IF end.kind = "exit" THEN Strip(end.stdout) ELSE <<>>
    IN /\ IsSearchOutcome(out)
       /\ end.kind = "timeout"  => BridgeFailure(out, "timeout")
       /\ end.kind = "notfound" => BridgeFailure(out, "script_not_found")
       /\ end.kind = "oserror"  => BridgeFailure(out, "subprocess_error")
       /\ end.kind = "exit" /\ text = <<>> => BridgeFailure(out, "empty_output")
       /\ end.kind = "exit" /\ text # <<>> /\ ~Loads(text).ok
            => BridgeFailure(out, "non_json_output")
       /\ end.kind = "exit" /\ text # <<>> /\ Loads(text).ok /\ ~IsSearchOutcome(Loads(text).v)
            => Get(out, "ok") = JBool(FALSE) /\ Get(out, "error") \in BridgeErrorKinds

\* msg with params.arguments replaced by v
RECURSIVE SetMember(_, _, _)
SetMember(m, k, v) ==
  IF m = <<>> THEN <<>>
  ELSE <<IF Head(m).k = <<k>> THEN Mem(k, v) ELSE Head(m)>> \o SetMember(Tail(m), k, v)

WithArguments(msg, v) ==
  JObj(SetMember(msg.m, "params",
                 JObj(SetMember(Get(msg, "params").m, "arguments", v))))

HasStringArguments(msg) == IsToolsCall(msg) /\ IsStr(ArgumentsOf(msg))

\* the reply, the entries answered and the bridge invocations are those of
\* the same request with arguments sent as the value v (the helper ending
\* the same way, if it is started)
SameAsWithArguments(v) ==
  LET end == IF ends[1] = NoProc THEN AnEnd ELSE ends[1]
  IN rpc_entry(WithArguments(payload, v), <<end>>) =
       [resp |-> reply, from |-> answers, calls |-> calls]

\* C8 as stated: a tools/call whose arguments is a JSON-encoded string is
\* handled exactly as the same call with arguments replaced by the decoded
\* value, whatever that value is; a string that is not JSON yields -32602.
C8_StringArgumentsAsDecoded ==
  Replied /\ HasStringArguments(payload) =>
    LET dec == Loads(ArgumentsOf(payload).s)
    IN IF dec.ok THEN SameAsWithArguments(dec.v) ELSE IsRpcError(reply, -32602)

\* C8 amended: the string is decoded once.  When the decoded value is not
\* itself a string the call is handled exactly as with the decoded value;
\* when it is a string (JSON text encoded twice) the call is rejected with
\* -32602 and the bridge is not invoked; a string that is not JSON yields
\* -32602.
C8_StringArgumentsDecodedOnce ==
  Replied /\ HasStringArguments(payload) =>
    LET dec == Loads(ArgumentsOf(payload).s)
    IN IF ~dec.ok THEN IsRpcError(reply, -32602) /\ calls = <<>>
       ELSE IF IsStr(dec.v) THEN IsRpcError(reply, -32602) /\ calls = <<>>
       ELSE SameAsWithArguments(dec.v)

\* a call with string arguments that decoded to an object and reached the
\* bridge with the trimmed query
C8_Witness ==
  /\ Replied
  /\ HasStringArguments(payload)
  /\ Loads(ArgumentsOf(payload).s).ok
  /\ IsDict(Loads(ArgumentsOf(payload).s).v)
  /\ Len(calls) = 1
  /\ calls[1].query = <<"x">>
  /\ IsRpcResult(reply)

\* whether choices[0].message.content yields text: a string, or a list with
\* at least one text part, that is not blank
ContentOf(payload_json) ==
  LET choices == Get(payload_json, "choices")
  IN IF IsList(choices) /\ Truthy(choices) /\ IsDict(choices.a[1])
        /\ IsDict(GetOr(choices.a[1], "message", JObj(<<>>)))
     THEN Get(GetOr(choices.a[1], "message", JObj(<<>>)), "content")
     ELSE JNull

IsTextPart(part) ==
  IsDict(part) /\ Get(part, "type") = S("text") /\ IsStr(Get(part, "text"))

UsableContent(c) ==
  \/ IsStr(c) /\ Strip(c.s) # <<>>
  \/ IsList(c) /\ \E i \in 1..Len(c.a) :
        IsTextPart(c.a[i]) /\ Strip(Get(c.a[i], "text").s) # <<>>

\* C9: for every provider payload object both extractors return without
\* raising, content is a non-empty string, and it is the JSON serialization
\* of the payload whenever choices[0].message.content yields no text.
C9_NormalizerNeverFailsContentNonEmpty ==
  /\ content # None =>
       /\ content.t = "return"
       /\ content.v # <<>>
       /\ ~UsableContent(ContentOf(pj)) => content.v = Dumps(pj)
  /\ hpc = "failed" => content.t = "return" /\ sources.t = "return"
  /\ sources # None => sources.t = "return"

\* the text parts of a content list, trimmed, blank ones dropped
RECURSIVE TrimmedNonBlank(_)
TrimmedNonBlank(parts) ==
  IF parts = <<>> THEN <<>>
  ELSE (IF IsTextPart(Head(parts)) /\ Strip(Get(Head(parts), "text").s) # <<>>
        THEN <<Strip(Get(Head(parts), "text").s)>> ELSE <<>>)
       \o TrimmedNonBlank(Tail(parts))

\* C10: a content list yields the newline-join of its text parts, each
\* trimmed, those blank after trimming left out; a content string yields
\* the trimmed string.
C10_ContentPartsTrimmedThenFiltered ==
  content # None =>
    LET c == ContentOf(pj)
    IN /\ IsList(c) => content = Ret(Join(<<NL>>, TrimmedNonBlank(c.a)))
       /\ IsStr(c)  => content = Ret(Strip(c.s))

\* choices[0].message when the payload has one that is an object, else an
\* object without keys
MessageOf(payload_json) ==
  LET choices == Get(payload_json, "choices")
  IN IF IsList(choices) /\ Truthy(choices) /\ IsDict(choices.a[1])
        /\ IsDict(GetOr(choices.a[1], "message", JObj(<<>>)))
     THEN GetOr(choices.a[1], "message", JObj(<<>>))
     ELSE JObj(<<>>)

MetadataOf(message) ==
  IF IsDict(Get(message, "metadata")) THEN Get(message, "metadata") ELSE JObj(<<>>)

\* the candidates in the order C11 names them: the three message keys, the
\* three keys under message.metadata, the three top-level keys
ClaimedCandidates(payload_json) ==
  << Get(MessageOf(payload_json), "citations"),
     Get(MessageOf(payload_json), "sources"),
     Get(MessageOf(payload_json), "references"),
     Get(MetadataOf(MessageOf(payload_json)), "citations"),
     Get(MetadataOf(MessageOf(payload_json)), "sources"),
     Get(MetadataOf(MessageOf(payload_json)), "references"),
     Get(payload_json, "sources"),
     Get(payload_json, "citations"),
     Get(payload_json, "references") >>

\* the entries of the first candidate that is a non-empty list; none when
\* there is no such candidate
RECURSIVE FirstNonEmptyList(_)
FirstNonEmptyList(candidates) ==
  IF candidates = <<>> THEN <<>>
  ELSE IF IsList(Head(candidates)) /\ Head(candidates).a # <<>> THEN Head(candidates).a
  ELSE FirstNonEmptyList(Tail(candidates))

\* C11: extract_sources returns the normalized entries of exactly one
\* candidate: the first non-empty list in the order message.citations,
\* message.sources, message.references, then message.metadata.citations,
\* .sources, .references, then top-level sources, citations, references; a
\* candidate that is empty or not a list is passed over.
C11_StrictPrecedence ==
  sources # None =>
    sources = Ret(JArr(NormalizeAll(FirstNonEmptyList(ClaimedCandidates(pj)))))

\* the value a field takes from its two keys: that of the first key when it
\* is truthy, else that of the second
FieldFrom(entry, first, second) ==
  IF Truthy(Get(entry, first)) THEN Get(entry, first) ELSE Get(entry, second)

\* each field of a SourceEntry with the two keys it is read from
SourceFields ==
  << <<"url", "url", "href">>, <<"title", "title", "name">>,
     <<"snippet", "snippet", "quote">> >>

\* the field is present with the value read from the entry, or absent when
\* that value is falsy
FieldAgrees(entry, out, f) ==
  IF Truthy(FieldFrom(entry, f[2], f[3]))
  THEN HasKey(out, f[1]) /\ Get(out, f[1]) = FieldFrom(entry, f[2], f[3])
  ELSE ~HasKey(out, f[1])

\* an object with no key besides url, title, snippet, none of them twice
IsSourceEntry(out) ==
  /\ IsDict(out)
  /\ \A i \in 1..Len(out.m) : out.m[i].k \in {<<"url">>, <<"title">>, <<"snippet">>}
  /\ \A i, j \in 1..Len(out.m) : out.m[i].k = out.m[j].k => i = j

HasSourceField(out) ==
  HasKey(out, "url") \/ HasKey(out, "title") \/ HasKey(out, "snippet")

\* out is what the element becomes: {url} for a bare string, the fields read
\* from url/href, title/name, snippet/quote for an object
NormalizesTo(entry, out) ==
  /\ IsSourceEntry(out)
  /\ HasSourceField(out)
  /\ IF IsStr(entry) THEN out.m = <<Mem("url", entry)>>
     ELSE /\ IsDict(entry)
          /\ \A n \in 1..Len(SourceFields) : FieldAgrees(entry, out, SourceFields[n])

\* the element is neither string nor object, or an object none of whose
\* fields has a value
IsDropped(entry) ==
  /\ ~IsStr(entry)
  /\ IsDict(entry) =>
       \A n \in 1..Len(SourceFields) :
          ~Truthy(FieldFrom(entry, SourceFields[n][2], SourceFields[n][3]))

\* result is given mapped element by element, the dropped elements left
\* out and the others in their order
MappedInOrder(given, result) ==
  \E f \in [1..Len(result) -> 1..Len(given)] :
    /\ \A i, j \in 1..Len(result) : i < j => f[i] < f[j]
    /\ \A i \in 1..Len(result) : NormalizesTo(given[f[i]], result[i])
    /\ \A k \in 1..Len(given) :
         (\A i \in 1..Len(result) : f[i] # k) => IsDropped(given[k])

\* C12: when the chosen candidate is a list, the sources returned are its
\* elements mapped one by one in order (a bare string to {url}, an object to
\* url from url/href, title from title/name, snippet from snippet/quote),
\* the elements that are neither string nor object or that yield no field
\* dropped; every entry returned has at least one of url, title, snippet.
C12_SourcesMappedInOrder ==
  sources # None /\ sources.t = "return" /\ IsList(PotentialSources(pj).v) =>
    /\ MappedInOrder(PotentialSources(pj).v.a, sources.v.a)
    /\ \A i \in 1..Len(sources.v.a) :
         IsDict(sources.v.a[i]) /\ HasSourceField(sources.v.a[i])

\* a list of three was normalized: its object gave url and title from href
\* and name, the empty object was dropped, the bare string came after
C12_Witness ==
  /\ hpc = "sources"
  /\ PotentialSources(pj) =
       Ret(JArr(<< JObj(<<Mem("href", S("http://y")), Mem("name", S("Y"))>>),
                   JObj(<<>>), S("http://x") >>))
  /\ sources =
       Ret(JArr(<< JObj(<<Mem("url", S("http://y")), Mem("title", S("Y"))>>),
                   JObj(<<Mem("url", S("http://x"))>>) >>))

====
